---- MODULE Spec2Model ----
(***************************************************************************)
(* A model of go-config's ConfigManager (src/config.go): the value map,   *)
(* the validator list and the sync.RWMutex that guards both, driven by a   *)
(* set of goroutines that call Get, the typed accessors, Set, Load,        *)
(* Validate and AddValidator.                                              *)
(*                                                                         *)
(* Spec        the concurrent store: NumProcs goroutines, small values.    *)
(* SpecAcc     one goroutine, the full tagged value domain: the coercion   *)
(*             rules of the typed accessors.                               *)
(* SpecVld     one goroutine and one built-in validator (Required, Type,   *)
(*             Range) on every kind of value.                              *)
(* SpecReadme  the README's main: the file, the environment, the defaults. *)
(* SpecCb      the concurrent store with validators that call back into it.*)
(* SpecKeys    the concurrent store with empty and failing sources.        *)
(***************************************************************************)
EXTENDS Integers, Sequences, FiniteSets, TLC

\* ------------------------------------------------------------------ bounds
NumProcs == 3
\* operations started in one behaviour of Spec
MaxOps == 3
\* longest list value
MaxLen == 3
\* longest validator list
MaxValidators == 2

Procs == 1..NumProcs
Keys == {"a", "b"}
\* no goroutine
None == 0

\* ------------------------------------------------------------------ values
\* Go's "any" as a tagged value.  A float64 is finite (v counts tenths), or
\* NaN, an infinity, or a finite value beyond the range of int ("+big", "-big").
IntV(n) == [t |-> "int", v |-> n]
FloatV(m) == [t |-> "float", cls |-> "fin", v |-> m]
FloatS(c) == [t |-> "float", cls |-> c, v |-> 0]
StrV(s) == [t |-> "string", v |-> s]
BoolV(b) == [t |-> "bool", v |-> b]
StrsV(q) == [t |-> "[]string", v |-> q]
AnysV(q) == [t |-> "[]any", v |-> q]
\* the nil interface value, the nil slice
NilAny == [t |-> "nil", v |-> 0]
NilSlice == [t |-> "nilslice", v |-> 0]

\* errors
Err(e, key, cause) == [e |-> e, key |-> key, cause |-> cause]
Nil == Err("nil", "", "")

\* a Go map: a function on the set of keys present
EmptyMap == [k \in {} |-> NilAny]
Has(m, k) == k \in DOMAIN m
Put(m, k, v) == [x \in (DOMAIN m) \cup {k} |-> IF x = k THEN v ELSE m[x]]

\* the values the goroutines of Spec write
CVals == {IntV(1), IntV(2)}

\* ------------------------------------------------------------------ state
VARIABLES
    values,      \* c.values
    validators,  \* c.validators
    wmutex,      \* c.mu: the goroutine holding the writers' mutex rw.w, or None
    readers,     \* c.mu: the number of goroutines holding the read lock
    pc,          \* where each goroutine is: idle, rwait, wlock, drain, cs, src
    cur,         \* the call each goroutine is in
    todo,        \* Load: the keys of the produced mapping not yet merged
    idx,         \* Validate: the index of the next validator
    ret,         \* the return the latest step made, if it made one
    nops,        \* calls started
    lastw,       \* history: per key, the value of the latest write executed
    lastAcq,     \* history: per key, the value of the latest write-lock holder
    chain,       \* history: the last two merges with no other write between
    raced,       \* history: the keys two writers have contended for
    seen,        \* history: the mappings the validators of one run were given
    ran          \* history: the validators one run invoked, in order

vars == <<values, validators, wmutex, readers, pc, cur, todo, idx, ret, nops,
          lastw, lastAcq, chain, raced, seen, ran>>
hist == <<lastw, lastAcq, chain, raced, seen, ran>>

NoSrc == [vals |-> EmptyMap, err |-> Nil]
NoVld == [kind |-> "none"]
NoCall == [op |-> "none", key |-> "", val |-> NilAny, src |-> NoSrc, vld |-> NoVld]
\* a return: the results (val, found, err) and, as history, what the map held
\* for the key when it was read (raw) and what lastw and lastAcq held then
NoRet == [by |-> None, op |-> "none", key |-> "", val |-> NilAny, found |-> FALSE,
          err |-> Nil, raw |-> NilAny, lw |-> NilAny, la |-> NilAny, ran |-> <<>>]
Return(p, op) == [NoRet EXCEPT !.by = p, !.op = op]
NoChain == [n |-> 0, before |-> EmptyMap, A |-> EmptyMap, mid |-> EmptyMap, B |-> EmptyMap]

\* New()
Init ==
    /\ values = EmptyMap
    /\ validators = <<>>
    /\ wmutex = None
    /\ readers = 0
    /\ pc = [p \in Procs |-> "idle"]
    /\ cur = [p \in Procs |-> NoCall]
    /\ todo = [p \in Procs |-> {}]
    /\ idx = [p \in Procs |-> 0]
    /\ ret = NoRet
    /\ nops = 0
    /\ lastw = EmptyMap
    /\ lastAcq = EmptyMap
    /\ chain = NoChain
    /\ raced = {}
    /\ seen = [p \in Procs |-> {}]
    /\ ran = [p \in Procs |-> <<>>]

\* ------------------------------------------------------------------ c.mu
\* sync.RWMutex: RLock blocks while a writer holds or waits for the lock
\* (readerCount < 0); Lock takes the writers' mutex rw.w, then waits for the
\* readers that hold the lock to leave; Unlock admits the readers that waited.
RLockBlocked_Never == FALSE
RLockBlocked_BySource == wmutex # None \/ \E q \in Procs : pc[q] = "src"
RLockBlocked == wmutex # None
WMutexFree_Always == TRUE
WMutexFree == wmutex = None
ReadersDrained_Always == TRUE
ReadersDrained == readers = 0

Waiting == {q \in Procs : pc[q] = "rwait"}
\* c.mu.Unlock() by p, which returns
WUnlock(p) ==
    /\ pc' = [q \in Procs |-> IF q = p THEN "idle"
                               ELSE IF pc[q] = "rwait" THEN "cs" ELSE pc[q]]
    /\ readers' = readers + Cardinality(Waiting)
    /\ wmutex' = None
\* c.mu.RUnlock() by p, which returns
RUnlock(p) ==
    /\ pc' = [pc EXCEPT ![p] = "idle"]
    /\ readers' = readers - 1
    /\ UNCHANGED wmutex

\* p is in no call (idx[p] > 0 while p is inside Validate's loop, also when
\* the call a validator made has returned to it)
Idle(p) == pc[p] = "idle" /\ idx[p] = 0
\* Goroutines are interchangeable and keep nothing between calls: a call is
\* started by the lowest idle one, while fewer than MaxOps have been started.
LowestIdle(p) == Idle(p) /\ \A q \in Procs : q < p => ~Idle(q)
Start(p) == nops < MaxOps /\ LowestIdle(p) /\ nops' = nops + 1

\* c.mu.RLock() on entry to a reading operation
BeginRead(p, c) ==
    /\ Start(p)
    /\ cur' = [cur EXCEPT ![p] = c]
    /\ IF RLockBlocked
         THEN pc' = [pc EXCEPT ![p] = "rwait"] /\ UNCHANGED readers
         ELSE pc' = [pc EXCEPT ![p] = "cs"] /\ readers' = readers + 1
    /\ ret' = NoRet
    /\ UNCHANGED <<values, validators, wmutex, todo, lastw, lastAcq, chain, raced>>

\* ------------------------------------------------------------------ sources
\* What a Source's Load() returns: a mapping and an error.
SrcOK(m) == [vals |-> m, err |-> Nil]
SrcErr(m) == [vals |-> m, err |-> Err("load error", "", "")]
MapAB == Put(Put(EmptyMap, "a", IntV(1)), "b", IntV(1))
MapB == Put(EmptyMap, "b", IntV(2))
MapA == Put(EmptyMap, "a", IntV(2))
\* two mappings, a failing source (nil and an error, as MockSource and
\* FileSource fail), and a source failing with a mapping
Sources == {SrcOK(MapAB), SrcOK(MapB), SrcErr(EmptyMap), SrcErr(MapA)}

\* if err != nil
SourceFailed_Ignored(s) == FALSE
SourceFailed(s) == s.err # Nil

\* ------------------------------------------------------------------ validators
MockV(fail) == [kind |-> "mock", fail |-> fail]
ReqV(keys) == [kind |-> "required", keys |-> keys]
CValidators == {MockV(FALSE), MockV(TRUE), ReqV(<<"a">>)}

\* MockValidator.Validate
MockValidate(v, m) == IF v.fail THEN Err("validation failed", "", "") ELSE Nil
\* RequiredValidator.Validate: the loop over v.Keys from index i
RequiredFrom_Last(keys, i, m) ==
    LET M == {j \in i..Len(keys) : ~Has(m, keys[j])} IN
    IF M = {} THEN Nil
    ELSE Err("required configuration key missing",
             keys[CHOOSE j \in M : \A l \in M : l <= j], "")
RECURSIVE RequiredFrom(_, _, _)
RequiredFrom(keys, i, m) ==
    IF i > Len(keys) THEN Nil
    ELSE IF ~Has(m, keys[i])
         THEN Err("required configuration key missing", keys[i], "")
         ELSE RequiredFrom(keys, i + 1, m)
RequiredValidate(v, m) == RequiredFrom(v.keys, 1, m)
\* TypeValidator{Key, Type}: Type is a reflect.Type, here the tag of a value
TypeV(key, type) == [kind |-> "type", key |-> key, type |-> type]
\* TypeValidator.Validate: reflect.TypeOf(value) != v.Type
TypeValidate_Assignable(v, m) ==
    IF ~Has(m, v.key) THEN Nil
    ELSE IF m[v.key].t # v.type /\ ~(m[v.key].t = "int" /\ v.type = "float")
         THEN Err("invalid type", v.key, "")
         ELSE Nil
TypeValidate(v, m) ==
    IF ~Has(m, v.key) THEN Nil
    ELSE IF m[v.key].t # v.type THEN Err("invalid type", v.key, "") ELSE Nil
RunValidator(v, m) ==
    CASE v.kind = "mock" -> MockValidate(v, m)
      [] v.kind = "required" -> RequiredValidate(v, m)
      [] v.kind = "type" -> TypeValidate(v, m)

\* ------------------------------------------------------------------ accessors
\* A result of an accessor: the value and the found flag.
Res(v, found) == [val |-> v, found |-> found]

\* int(v) of a float64 v in the range of int: the fraction is discarded
Trunc_Rounds(m) == IF m >= 0 THEN (m + 5) \div 10 ELSE -((5 - m) \div 10)
Trunc(m) == IF m >= 0 THEN m \div 10 ELSE -((-m) \div 10)
\* int(v) of a float64 that int cannot represent (NaN, an infinity, a value
\* beyond the range): the conversion succeeds and its result depends on the
\* implementation (the least int on amd64; 0, the least or the greatest int
\* where the conversion saturates)
MaxInt == 2147483647
MinInt == -MaxInt - 1
ImplDefinedInts == {MinInt, 0, MaxInt}
IntOfFloat(f) == IF f.cls = "fin" THEN {Trunc(f.v)} ELSE ImplDefinedInts
\* float64(v) of an int
FloatOfInt(n) == FloatV(n * 10)

\* RangeValidator{Key, Min, Max, IsInt}: Min and Max are float64
RangeV(key, min, max, isInt) ==
    [kind |-> "range", key |-> key, min |-> min, max |-> max, isInt |-> isInt]
\* x < y on float64: false when either is NaN; the finite values beyond the
\* range of int stand on either side of those within it
FRank(f) ==
    CASE f.cls = "-inf" -> 1
      [] f.cls = "-big" -> 2
      [] f.cls = "fin" -> 3
      [] f.cls = "+big" -> 4
      [] f.cls = "+inf" -> 5
FLess(x, y) ==
    /\ x.cls # "nan" /\ y.cls # "nan"
    /\ \/ FRank(x) < FRank(y)
       \/ x.cls = "fin" /\ y.cls = "fin" /\ x.v < y.v
\* floatValue < v.Min || floatValue > v.Max
OutOfRange(f, min, max) == FLess(f, min) \/ FLess(max, f)
\* f == float64(n): the float64 of an int is finite
EqFloatOfInt(f, n) == f.cls = "fin" /\ f.v = 10 * n
\* RangeValidator.Validate: the errors it can return (int(floatValue) is
\* defined by the implementation when the int cannot hold floatValue)
RangeValidate(v, m) ==
    IF ~Has(m, v.key) THEN {Nil}
    ELSE IF m[v.key].t \notin {"float", "int"}
            THEN {Err("invalid type for range validation", v.key, "")}
    ELSE LET floatValue == IF m[v.key].t = "float" THEN m[v.key]
                                                  ELSE FloatOfInt(m[v.key].v) IN
         IF OutOfRange(floatValue, v.min, v.max)
            THEN {Err("value is out of range", v.key, "")}
         ELSE IF v.isInt
            THEN {IF ~EqFloatOfInt(floatValue, n)
                     THEN Err("value must be an integer", v.key, "") ELSE Nil :
                  n \in IntOfFloat(floatValue)}
         ELSE {Nil}
\* validator.Validate(c.values): the errors the call can return
Outcomes(v, m) == IF v.kind = "range" THEN RangeValidate(v, m) ELSE {RunValidator(v, m)}

\* c.values[key]
Lookup(m, k) == IF Has(m, k) THEN Res(m[k], TRUE) ELSE Res(NilAny, FALSE)

GetStringOf_Formats(g) ==
    IF ~g.found THEN {Res(StrV(""), FALSE)}
    ELSE IF g.val.t = "string" THEN {Res(g.val, TRUE)} ELSE {Res(StrV("formatted"), TRUE)}
GetStringOf(g) ==
    IF ~g.found THEN {Res(StrV(""), FALSE)}
    ELSE IF g.val.t = "string" THEN {Res(g.val, TRUE)} ELSE {Res(StrV(""), FALSE)}
GetIntOf(g) ==
    IF ~g.found THEN {Res(IntV(0), FALSE)}
    ELSE CASE g.val.t = "int" -> {Res(g.val, TRUE)}
           [] g.val.t = "float" -> {Res(IntV(n), TRUE) : n \in IntOfFloat(g.val)}
           [] OTHER -> {Res(IntV(0), FALSE)}
GetBoolOf(g) ==
    IF ~g.found THEN {Res(BoolV(FALSE), FALSE)}
    ELSE IF g.val.t = "bool" THEN {Res(g.val, TRUE)} ELSE {Res(BoolV(FALSE), FALSE)}
GetFloatOf(g) ==
    IF ~g.found THEN {Res(FloatV(0), FALSE)}
    ELSE CASE g.val.t = "float" -> {Res(g.val, TRUE)}
           [] g.val.t = "int" -> {Res(FloatOfInt(g.val.v), TRUE)}
           [] OTHER -> {Res(FloatV(0), FALSE)}
\* the loop of GetStringSlice over a []any, from index i with result so far
RECURSIVE AnysToStrs_SkipsOthers(_, _, _)
AnysToStrs_SkipsOthers(q, i, result) ==
    IF i > Len(q) THEN Res(StrsV(result), TRUE)
    ELSE IF q[i].t = "string"
         THEN AnysToStrs_SkipsOthers(q, i + 1, Append(result, q[i].v))
         ELSE AnysToStrs_SkipsOthers(q, i + 1, result)
RECURSIVE AnysToStrs(_, _, _)
AnysToStrs(q, i, result) ==
    IF i > Len(q) THEN Res(StrsV(result), TRUE)
    ELSE IF q[i].t = "string"
         THEN AnysToStrs(q, i + 1, Append(result, q[i].v))
         ELSE Res(NilSlice, FALSE)
GetStringSliceOf(g) ==
    IF ~g.found THEN {Res(NilSlice, FALSE)}
    ELSE CASE g.val.t = "[]string" -> {Res(g.val, TRUE)}
           [] g.val.t = "[]any" -> {AnysToStrs(g.val.v, 1, <<>>)}
           [] OTHER -> {Res(NilSlice, FALSE)}

Accessors == {"Get", "GetString", "GetInt", "GetBool", "GetFloat", "GetStringSlice"}
TypedAccessors == Accessors \ {"Get"}
\* what accessor op returns for what c.Get returned
Coerce(op, g) ==
    CASE op = "Get" -> {g}
      [] op = "GetString" -> GetStringOf(g)
      [] op = "GetInt" -> GetIntOf(g)
      [] op = "GetBool" -> GetBoolOf(g)
      [] op = "GetFloat" -> GetFloatOf(g)
      [] op = "GetStringSlice" -> GetStringSliceOf(g)

\* ------------------------------------------------------------------ operations
Call(op, k, v, s, vl) == [op |-> op, key |-> k, val |-> v, src |-> s, vld |-> vl]
At(m, k) == IF Has(m, k) THEN m[k] ELSE NilAny
\* m with every entry of n laid over it
Override(m, n) == [x \in (DOMAIN m) \cup (DOMAIN n) |-> IF x \in DOMAIN n THEN n[x] ELSE m[x]]

\* c.values[key] = value in Set
SetValue_KeepsExisting(m, k, v) == IF Has(m, k) THEN m ELSE Put(m, k, v)
SetValue(m, k, v) == Put(m, k, v)
\* c.values[k] = v in Load's loop
MergeValue_KeepsExisting(m, k, v) == IF Has(m, k) THEN m ELSE Put(m, k, v)
MergeValue_Replaces(m, k, v) == Put(EmptyMap, k, v)
MergeValue(m, k, v) == Put(m, k, v)
\* append(c.validators, validator)
AppendValidator_Dedups(vs, v) ==
    IF \E i \in 1..Len(vs) : vs[i] = v THEN vs ELSE Append(vs, v)
AppendValidator(vs, v) == Append(vs, v)
\* if err := validator.Validate(c.values); err != nil
Failed_Never(e) == FALSE
Failed(e) == e # Nil

\* Get and the typed accessors, to c.mu.RLock()
Get(p, op, k) ==
    /\ BeginRead(p, Call(op, k, NilAny, NoSrc, NoVld))
    /\ UNCHANGED <<idx, seen, ran>>
\* value, exists := c.values[key]; RUnlock; the accessor's type switch
GetReturn(p) ==
    /\ pc[p] = "cs"
    /\ cur[p].op \in Accessors
    /\ \E r \in Coerce(cur[p].op, Lookup(values, cur[p].key)) :
          ret' = [Return(p, cur[p].op) EXCEPT
                    !.key = cur[p].key, !.val = r.val, !.found = r.found,
                    !.raw = At(values, cur[p].key),
                    !.lw = At(lastw, cur[p].key), !.la = At(lastAcq, cur[p].key)]
    /\ RUnlock(p)
    /\ cur' = [cur EXCEPT ![p] = NoCall]
    /\ UNCHANGED <<nops, values, validators, todo, idx, hist>>

\* the last two merges in lock order, with no Set between them
Chained(m) ==
    CASE chain.n = 0 -> [n |-> 1, before |-> values, A |-> m, mid |-> EmptyMap, B |-> EmptyMap]
      [] chain.n = 1 -> [chain EXCEPT !.n = 2, !.mid = values, !.B = m]
      [] chain.n = 2 -> [n |-> 2, before |-> chain.mid, A |-> chain.B, mid |-> values, B |-> m]
\* p holds the write lock for call c: Load's loop starts
Locked(p, c) ==
    /\ pc' = [pc EXCEPT ![p] = "cs"]
    /\ todo' = [todo EXCEPT ![p] = IF c.op = "Load" THEN DOMAIN c.src.vals ELSE {}]
    /\ lastAcq' = CASE c.op = "Set" -> Put(lastAcq, c.key, c.val)
                     [] c.op = "Load" -> Override(lastAcq, c.src.vals)
                     [] OTHER -> lastAcq
    /\ chain' = IF c.op = "Load" THEN Chained(c.src.vals) ELSE chain
\* the keys call c writes
Writes(c) ==
    CASE c.op = "Set" -> {c.key}
      [] c.op = "Load" -> DOMAIN c.src.vals
      [] OTHER -> {}
\* c.mu.Lock(): rw.w.Lock(), then wait for the readers holding the lock
TryLock(p, c) ==
    IF WMutexFree
       THEN /\ wmutex' = p
            /\ UNCHANGED raced
            /\ IF ReadersDrained
                  THEN Locked(p, c)
                  ELSE /\ pc' = [pc EXCEPT ![p] = "drain"]
                       /\ UNCHANGED <<todo, lastAcq, chain>>
       ELSE /\ pc' = [pc EXCEPT ![p] = "wlock"]
            /\ raced' = raced \cup (Writes(c) \cap Writes(cur[wmutex]))
            /\ UNCHANGED <<wmutex, todo, lastAcq, chain>>
BeginWrite(p, c) ==
    /\ Start(p)
    /\ cur' = [cur EXCEPT ![p] = c]
    /\ TryLock(p, c)
    /\ ret' = NoRet
    /\ UNCHANGED <<values, validators, readers, idx, lastw, seen, ran>>
\* a writer blocked on rw.w gets it
AcquireW(p) ==
    /\ pc[p] = "wlock"
    /\ WMutexFree
    /\ TryLock(p, cur[p])
    /\ ret' = NoRet
    /\ UNCHANGED <<nops, values, validators, readers, cur, idx, lastw, seen, ran>>
\* the last reader left: the waiting writer holds the write lock
Drained(p) ==
    /\ pc[p] = "drain"
    /\ ReadersDrained
    /\ Locked(p, cur[p])
    /\ ret' = NoRet
    /\ UNCHANGED <<nops, values, validators, wmutex, readers, cur, idx, lastw, raced, seen, ran>>

\* Set, to c.mu.Lock()
Set(p, k, v) == BeginWrite(p, Call("Set", k, v, NoSrc, NoVld))
\* AddValidator, to c.mu.Lock()
AddValidator(p, vl) ==
    /\ nops < MaxOps
    /\ Len(validators) + Cardinality({q \in Procs : cur[q].op = "AddValidator"}) < MaxValidators
    /\ BeginWrite(p, Call("AddValidator", "", NilAny, NoSrc, vl))

\* c.values[key] = value; return nil; Unlock
SetReturn(p) ==
    /\ pc[p] = "cs"
    /\ cur[p].op = "Set"
    /\ values' = SetValue(values, cur[p].key, cur[p].val)
    /\ lastw' = Put(lastw, cur[p].key, cur[p].val)
    /\ chain' = NoChain
    /\ ret' = [Return(p, "Set") EXCEPT !.key = cur[p].key, !.val = cur[p].val]
    /\ cur' = [cur EXCEPT ![p] = NoCall]
    /\ WUnlock(p)
    /\ UNCHANGED <<nops, validators, todo, idx, lastAcq, raced, seen, ran>>
\* c.validators = append(c.validators, validator); Unlock
AddReturn(p) ==
    /\ pc[p] = "cs"
    /\ cur[p].op = "AddValidator"
    /\ validators' = AppendValidator(validators, cur[p].vld)
    /\ ret' = Return(p, "AddValidator")
    /\ cur' = [cur EXCEPT ![p] = NoCall]
    /\ WUnlock(p)
    /\ UNCHANGED <<nops, values, todo, idx, hist>>

\* Load, to source.Load(), which runs without the lock
Load(p, s) ==
    /\ Start(p)
    /\ cur' = [cur EXCEPT ![p] = Call("Load", "", NilAny, s, NoVld)]
    /\ pc' = [pc EXCEPT ![p] = "src"]
    /\ ret' = NoRet
    /\ UNCHANGED <<values, validators, wmutex, readers, todo, idx, hist>>
\* source.Load() failed: return fmt.Errorf("failed to load configuration: %w", err)
LoadFail(p) ==
    /\ pc[p] = "src"
    /\ SourceFailed(cur[p].src)
    /\ ret' = [Return(p, "Load") EXCEPT
                  !.err = Err("failed to load configuration", "", cur[p].src.err.e)]
    /\ pc' = [pc EXCEPT ![p] = "idle"]
    /\ cur' = [cur EXCEPT ![p] = NoCall]
    /\ UNCHANGED <<nops, values, validators, wmutex, readers, todo, idx, hist>>
\* source.Load() produced its mapping: c.mu.Lock()
LoadLock(p) ==
    /\ pc[p] = "src"
    /\ ~SourceFailed(cur[p].src)
    /\ TryLock(p, cur[p])
    /\ ret' = NoRet
    /\ UNCHANGED <<nops, values, validators, readers, cur, idx, lastw, seen, ran>>
\* one iteration of for k, v := range values (Go ranges over a map in any order)
MergeStep(p) ==
    /\ pc[p] = "cs"
    /\ cur[p].op = "Load"
    /\ \E k \in todo[p] :
          /\ values' = MergeValue(values, k, cur[p].src.vals[k])
          /\ lastw' = Put(lastw, k, cur[p].src.vals[k])
          /\ todo' = [todo EXCEPT ![p] = todo[p] \ {k}]
    /\ ret' = NoRet
    /\ UNCHANGED <<nops, validators, wmutex, readers, pc, cur, idx, lastAcq, chain, raced, seen, ran>>
\* the loop is over: return nil; Unlock
LoadReturn(p) ==
    /\ pc[p] = "cs"
    /\ cur[p].op = "Load"
    /\ todo[p] = {}
    /\ ret' = Return(p, "Load")
    /\ cur' = [cur EXCEPT ![p] = NoCall]
    /\ WUnlock(p)
    /\ UNCHANGED <<nops, values, validators, todo, idx, hist>>

\* Validate, to c.mu.RLock()
Validate(p) ==
    /\ BeginRead(p, Call("Validate", "", NilAny, NoSrc, NoVld))
    /\ idx' = [idx EXCEPT ![p] = 1]
    /\ UNCHANGED <<seen, ran>>
\* one iteration of for _, validator := range c.validators
ValidatorStep(p) ==
    /\ pc[p] = "cs"
    /\ cur[p].op = "Validate"
    /\ idx[p] <= Len(validators)
    /\ validators[idx[p]].kind # "callback"
    /\ \E e \in Outcomes(validators[idx[p]], values) :
         IF Failed(e)
            THEN /\ ret' = [Return(p, "Validate") EXCEPT
                              !.err = e, !.ran = Append(ran[p], idx[p])]
                 /\ RUnlock(p)
                 /\ cur' = [cur EXCEPT ![p] = NoCall]
                 /\ idx' = [idx EXCEPT ![p] = 0]
                 /\ seen' = [seen EXCEPT ![p] = {}]
                 /\ ran' = [ran EXCEPT ![p] = <<>>]
            ELSE /\ idx' = [idx EXCEPT ![p] = idx[p] + 1]
                 /\ seen' = [seen EXCEPT ![p] = seen[p] \cup {values}]
                 /\ ran' = [ran EXCEPT ![p] = Append(ran[p], idx[p])]
                 /\ ret' = NoRet
                 /\ UNCHANGED <<pc, readers, wmutex, cur>>
    /\ UNCHANGED <<nops, values, validators, todo, lastw, lastAcq, chain, raced>>
\* A validator the caller supplies, whose Validate calls back into the store
\* (Get, Set or Load) and returns nil.
CallbackV(op) == [kind |-> "callback", op |-> op]
CallbackOps == {"Get", "Set", "Load"}
CallbackCall(v) ==
    CASE v.op = "Get" -> Call("Get", "a", NilAny, NoSrc, NoVld)
      [] v.op = "Set" -> Call("Set", "a", IntV(1), NoSrc, NoVld)
      [] v.op = "Load" -> Call("Load", "", NilAny, SrcOK(MapB), NoVld)
\* validator.Validate(c.values) for such a validator: the goroutine, inside
\* Validate's loop and holding the read lock, enters the call on the store
Callback(p) ==
    /\ pc[p] = "cs"
    /\ cur[p].op = "Validate"
    /\ idx[p] <= Len(validators)
    /\ validators[idx[p]].kind = "callback"
    /\ LET c == CallbackCall(validators[idx[p]]) IN
         /\ cur' = [cur EXCEPT ![p] = c]
         /\ CASE c.op = "Get" ->
                   /\ IF RLockBlocked
                         THEN pc' = [pc EXCEPT ![p] = "rwait"] /\ UNCHANGED readers
                         ELSE pc' = [pc EXCEPT ![p] = "cs"] /\ readers' = readers + 1
                   /\ UNCHANGED <<wmutex, todo, lastAcq, chain, raced>>
              [] c.op = "Set" -> TryLock(p, c) /\ UNCHANGED readers
              [] c.op = "Load" ->
                   /\ pc' = [pc EXCEPT ![p] = "src"]
                   /\ UNCHANGED <<wmutex, readers, todo, lastAcq, chain, raced>>
    /\ ret' = NoRet
    /\ UNCHANGED <<nops, values, validators, idx, lastw, seen, ran>>
\* the call the validator made has returned, and the validator returns nil:
\* Validate's loop goes on
Resume(p) ==
    /\ pc[p] = "idle"
    /\ idx[p] > 0
    /\ pc' = [pc EXCEPT ![p] = "cs"]
    /\ cur' = [cur EXCEPT ![p] = Call("Validate", "", NilAny, NoSrc, NoVld)]
    /\ idx' = [idx EXCEPT ![p] = idx[p] + 1]
    /\ seen' = [seen EXCEPT ![p] = seen[p] \cup {values}]
    /\ ran' = [ran EXCEPT ![p] = Append(ran[p], idx[p])]
    /\ ret' = NoRet
    /\ UNCHANGED <<nops, values, validators, wmutex, readers, todo, lastw, lastAcq, chain, raced>>
\* the loop is over: return nil; RUnlock
ValidateReturn(p) ==
    /\ pc[p] = "cs"
    /\ cur[p].op = "Validate"
    /\ idx[p] > Len(validators)
    /\ ret' = [Return(p, "Validate") EXCEPT !.ran = ran[p]]
    /\ RUnlock(p)
    /\ cur' = [cur EXCEPT ![p] = NoCall]
    /\ idx' = [idx EXCEPT ![p] = 0]
    /\ seen' = [seen EXCEPT ![p] = {}]
    /\ ran' = [ran EXCEPT ![p] = <<>>]
    /\ UNCHANGED <<nops, values, validators, todo, lastw, lastAcq, chain, raced>>

\* ------------------------------------------------------------------ Spec
Calls(p) ==
    \/ \E k \in Keys : Get(p, "Get", k)
    \/ \E k \in Keys, v \in CVals : Set(p, k, v)
    \/ \E s \in Sources : Load(p, s)
    \/ Validate(p)
    \/ \E vl \in CValidators : AddValidator(p, vl)
Steps(p) ==
    \/ AcquireW(p)
    \/ Drained(p)
    \/ GetReturn(p)
    \/ SetReturn(p)
    \/ AddReturn(p)
    \/ LoadFail(p)
    \/ LoadLock(p)
    \/ MergeStep(p)
    \/ LoadReturn(p)
    \/ ValidatorStep(p)
    \/ ValidateReturn(p)
Next == \E p \in Procs : Calls(p) \/ Steps(p)
Spec == Init /\ [][Next]_vars

\* ------------------------------------------------------------------ SpecAcc
\* One goroutine sets key a to every kind of value and reads both keys with
\* every accessor.
SeqsOver(S) == UNION {[1..n -> S] : n \in 0..MaxLen}
AccVals ==
    {IntV(n) : n \in {-42, 0, 42}}
    \cup {FloatV(m) : m \in {-427, -5, 0, 5, 420, 427}}
    \cup {FloatS(c) : c \in {"nan", "+inf", "-inf", "+big", "-big"}}
    \cup {StrV("hi"), StrV(""), BoolV(TRUE), BoolV(FALSE)}
    \cup {StrsV(q) : q \in SeqsOver({"a", "c"})}
    \cup {AnysV(q) : q \in SeqsOver({StrV("a"), StrV("c"), IntV(1)})}
AccProc == CHOOSE p \in Procs : \A q \in Procs : p <= q
AccSetKeys == {"a"}
NextAcc ==
    \/ \E k \in AccSetKeys, v \in AccVals : Set(AccProc, k, v)
    \/ \E op \in Accessors, k \in Keys : Get(AccProc, op, k)
    \/ SetReturn(AccProc)
    \/ GetReturn(AccProc)
SpecAcc == Init /\ [][NextAcc]_vars

\* ------------------------------------------------------------------ SpecVld
\* One goroutine sets key a, or loads a and b, registers one of the built-in
\* validators, validates and reads with the typed accessors.
Port == IntV(8080)
VldVals ==
    {IntV(n) : n \in {1023, 1024, 65535, 65536}} \cup {Port}
    \cup {FloatV(m) : m \in {10239, 10240, 80800, 80805, 655350, 655351}}
    \cup {FloatS(c) : c \in {"nan", "+inf", "-inf", "+big", "-big"}}
    \cup {StrV("8080"), BoolV(TRUE), StrsV(<<"a">>), AnysV(<<StrV("a")>>)}
Types == {"int", "float", "string", "bool", "[]string", "[]any"}
PortMin == FloatV(10240)
PortMax == FloatV(655350)
VldValidators ==
    {ReqV(q) : q \in UNION {[1..n -> Keys] : n \in 0..2}}
    \cup {TypeV(k, t) : k \in Keys, t \in Types}
    \cup {RangeV("a", PortMin, PortMax, i) : i \in BOOLEAN}
    \cup {RangeV("a", FloatV(0), FloatS("+inf"), i) : i \in BOOLEAN}
    \cup {RangeV("a", FloatS("-inf"), FloatS("+big"), i) : i \in BOOLEAN}
NextVld ==
    \/ \E v \in VldVals : Set(AccProc, "a", v)
    \/ Load(AccProc, SrcOK(MapAB))
    \/ validators = <<>> /\ \E vl \in VldValidators : AddValidator(AccProc, vl)
    \/ Validate(AccProc)
    \/ \E op \in TypedAccessors, k \in Keys : Get(AccProc, op, k)
    \/ SetReturn(AccProc)
    \/ LoadLock(AccProc)
    \/ MergeStep(AccProc)
    \/ LoadReturn(AccProc)
    \/ AddReturn(AccProc)
    \/ ValidatorStep(AccProc)
    \/ ValidateReturn(AccProc)
    \/ GetReturn(AccProc)
SpecVld == Init /\ [][NextVld]_vars

\* ------------------------------------------------------------------ SpecReadme
\* The README's main: Load(FileSource), Load(EnvSource), Load(DefaultSource),
\* each after the one before has returned nil (log.Fatal otherwise).
ReadmeMaps == UNION {[S -> CVals] : S \in SUBSET Keys}
\* FileSource.Load: the parsed mapping, or nil and an error
FileSourceLoad == {SrcOK(m) : m \in ReadmeMaps} \cup {SrcErr(EmptyMap)}
\* EnvSource.Load: the mapping of the prefixed variables, and nil
EnvSourceLoad == {SrcOK(m) : m \in ReadmeMaps}
\* DefaultSource.Load: s.Values, and nil
DefaultSourceLoad == {SrcOK(m) : m \in ReadmeMaps}
Loaded == ret.op = "Load" /\ ret.err = Nil
LoadFile(p) == nops = 0 /\ \E s \in FileSourceLoad : Load(p, s)
LoadEnv(p) == nops = 1 /\ Loaded /\ \E s \in EnvSourceLoad : Load(p, s)
LoadDefaults(p) == nops = 2 /\ Loaded /\ \E s \in DefaultSourceLoad : Load(p, s)
NextReadme ==
    \/ LoadFile(AccProc)
    \/ LoadEnv(AccProc)
    \/ LoadDefaults(AccProc)
    \/ LoadFail(AccProc)
    \/ LoadLock(AccProc)
    \/ MergeStep(AccProc)
    \/ LoadReturn(AccProc)
SpecReadme == Init /\ [][NextReadme]_vars

\* ------------------------------------------------------------------ SpecCb
\* The goroutines register validators that call back into the store, validate,
\* and read and write beside.
CallsCb(p) ==
    \/ \E op \in CallbackOps : AddValidator(p, CallbackV(op))
    \/ Validate(p)
    \/ Get(p, "Get", "a")
    \/ Set(p, "a", IntV(2))
    \/ Load(p, SrcOK(MapB))
StepsCb(p) ==
    \/ Callback(p)
    \/ Resume(p)
    \/ AcquireW(p)
    \/ Drained(p)
    \/ GetReturn(p)
    \/ SetReturn(p)
    \/ AddReturn(p)
    \/ LoadLock(p)
    \/ MergeStep(p)
    \/ LoadReturn(p)
    \/ ValidateReturn(p)
NextCb == \E p \in Procs : CallsCb(p) \/ StepsCb(p)
SpecCb == Init /\ [][NextCb]_vars

\* ------------------------------------------------------------------ SpecKeys
\* The goroutines set and load keys, also from a source that produces an
\* empty or nil mapping (ranging over either runs no iteration) and from one
\* that fails, and read, validate and register a validator beside.
KeySources == {SrcOK(EmptyMap), SrcOK(MapB), SrcErr(MapA)}
CallsKeys(p) ==
    \/ \E k \in Keys : Get(p, "Get", k)
    \/ \E k \in Keys : Set(p, k, IntV(1))
    \/ \E s \in KeySources : Load(p, s)
    \/ Validate(p)
    \/ AddValidator(p, ReqV(<<"a">>))
NextKeys == \E p \in Procs : CallsKeys(p) \/ Steps(p)
SpecKeys == Init /\ [][NextKeys]_vars

\* ------------------------------------------------------------------ claims
ReaderOps == Accessors \cup {"Validate"}
WriterOps == {"Set", "Load", "AddValidator"}
ReaderIn(p) == pc[p] = "cs" /\ cur[p].op \in ReaderOps
WriterIn(p) == pc[p] = "cs" /\ cur[p].op \in WriterOps
Loading(p) == pc[p] = "cs" /\ cur[p].op = "Load"
\* some keys of the mapping are merged and others are not
Partial(p) == Loading(p) /\ todo[p] # {} /\ todo[p] # DOMAIN cur[p].src.vals

\* C1: Set returns no error and leaves the key holding its value; a Get of a
\* key returns (v, true) for the value v of the latest write to that key,
\* whatever other goroutines are reading.
C1_SetThenGet ==
    /\ ret.op = "Set" =>
          ret.err = Nil /\ Has(values, ret.key) /\ values[ret.key] = ret.val
    /\ (ret.op = "Get" /\ ret.lw # NilAny) => (ret.found /\ ret.val = ret.lw)
\* a Get returns the value a Set wrote while another Get is in its critical section
C1_Witness ==
    /\ ret.op = "Get" /\ ret.key = "a" /\ ret.found /\ ret.val = IntV(2)
    /\ \E q \in Procs : pc[q] = "cs" /\ cur[q].op = "Get"

\* C2: after Load(A) then Load(B), with no other write between, a key of B
\* holds B's value, a key of A alone holds A's value, and a key of neither is
\* as it was before both.
C2_LastLoadedWins ==
    (chain.n = 2 /\ ~\E p \in Procs : Loading(p)) =>
        \A k \in Keys :
            IF Has(chain.B, k) THEN Has(values, k) /\ values[k] = chain.B[k]
            ELSE IF Has(chain.A, k) THEN Has(values, k) /\ values[k] = chain.A[k]
            ELSE At(values, k) = At(chain.before, k)
\* A defines a and b, B redefines b: a holds A's value and b holds B's
C2_Witness ==
    /\ chain.n = 2 /\ ~\E p \in Procs : Loading(p)
    /\ chain.A = MapAB /\ chain.B = MapB
    /\ values["a"] = IntV(1) /\ values["b"] = IntV(2)

\* C3: every step of a Load whose source fails leaves the value map and the
\* validator list as they are, and the one step it takes after the source has
\* run returns a non-nil error (so a Load that returns nil had a source that
\* succeeded).
FailingLoad(c) == c.op = "Load" /\ c.src.err # Nil
C3_LoadAtomicOnFailure ==
    [][\A p \in Procs :
          /\ ((FailingLoad(cur[p]) \/ FailingLoad(cur'[p])) /\ (cur'[p] # cur[p] \/ pc'[p] # pc[p]))
                => (values' = values /\ validators' = validators)
          /\ (FailingLoad(cur[p]) /\ (cur'[p] # cur[p] \/ pc'[p] # pc[p]))
                => (pc'[p] = "idle" /\ ret'.by = p /\ ret'.op = "Load" /\ ret'.err # Nil)]_vars
\* a Load has failed on a store that holds values
C3_Witness == ret.op = "Load" /\ ret.err # Nil /\ values # EmptyMap

\* C4: while a Load has merged some keys of its mapping and not the others,
\* no Get and no Validate is in its critical section.
C4_NoPartialMerge ==
    \A p, q \in Procs : (p # q /\ Partial(q)) => ~ReaderIn(p)
\* a Load is halfway through its mapping while a reader waits for the lock
C4_Witness ==
    \E p, q \in Procs : Partial(q) /\ pc[p] = "rwait"

\* C5: while Set, Load's merge or AddValidator is in its critical section no
\* other operation is in one (and two Gets can be: the witness).
C5_SingleWriterMultiReader ==
    \A p, q \in Procs : (p # q /\ WriterIn(p)) => pc[q] # "cs"
\* two Gets are in their critical sections at once
C5_Witness ==
    \E p, q \in Procs :
        p # q /\ pc[p] = "cs" /\ pc[q] = "cs" /\ cur[p].op = "Get" /\ cur[q].op = "Get"

\* the first validator of vs, in order, that fails on m; 0 when none does
FirstFailing(vs, m) ==
    LET F == {i \in 1..Len(vs) : RunValidator(vs[i], m) # Nil} IN
    IF F = {} THEN 0 ELSE CHOOSE i \in F : \A j \in F : i <= j
\* C6: Validate invokes the validators in registration order up to the first
\* that fails, returns that one's error, and returns nil exactly when none fails.
C6_FirstFailureWins ==
    ret.op = "Validate" =>
        LET ff == FirstFailing(validators, values) IN
        /\ ret.err = IF ff = 0 THEN Nil ELSE RunValidator(validators[ff], values)
        /\ ret.ran = [i \in 1..(IF ff = 0 THEN Len(validators) ELSE ff) |-> i]
\* RequiredValidator{a} then an always-failing validator, a missing: the
\* missing-key error is returned and the second validator is not invoked
C6_Witness ==
    /\ ret.op = "Validate"
    /\ validators = <<ReqV(<<"a">>), MockV(TRUE)>>
    /\ ret.err = Err("required configuration key missing", "a", "")
    /\ ret.ran = <<1>>

\* C7: while a Validate is in its critical section, the mapping is the one
\* every validator of this run was given.
C7_OneSnapshot ==
    \A p \in Procs :
        (pc[p] = "cs" /\ cur[p].op = "Validate") => seen[p] \subseteq {values}
\* two validators have run in one Validate, on one mapping
C7_Witness ==
    \E p \in Procs :
        pc[p] = "cs" /\ cur[p].op = "Validate" /\ Len(ran[p]) = 2 /\ seen[p] = {values}

\* C8: when no write is in its critical section every key holds the value of
\* the write that held the write lock last, and every Get returns that value.
C8_WritesLinearized ==
    /\ (~\E p \in Procs : WriterIn(p)) => values = lastAcq
    /\ ret.op = "Get" => (ret.found <=> ret.la # NilAny) /\ ret.val = ret.la
\* two writers contended for key a, and a Get of a returns the later one's value
C8_Witness ==
    /\ "a" \in raced
    /\ ret.op = "Get" /\ ret.key = "a" /\ ret.found /\ ret.val = lastAcq["a"]

\* r is m tenths with the fraction discarded: between 0 and m/10, less than 1 from it
IsTruncOf(r, m) ==
    IF m >= 0 THEN 0 <= m - 10 * r /\ m - 10 * r < 10
    ELSE -10 < m - 10 * r /\ m - 10 * r <= 0
\* C9 as stated: GetInt of any stored float64 x returns (x truncated toward
\* zero, true).  No int is the truncation of NaN or of an infinity, and the
\* truncation of a value beyond the range of int is not an int.
C9_AsStated ==
    (ret.op = "GetInt" /\ ret.raw.t = "float") =>
        (ret.found /\ ret.raw.cls = "fin" /\ IsTruncOf(ret.val.v, ret.raw.v))
\* C9, amended: GetInt returns a stored int as it is and a stored float64 that
\* is finite and within the range of int truncated toward zero (for any other
\* float64 it returns found = true with a value the implementation defines);
\* GetFloat returns a stored float64 as it is and a stored int widened; for a
\* value of any other type both return (0, false).
C9_NumericCoercion ==
    /\ ret.op = "GetInt" =>
          CASE ret.raw.t = "int" -> ret.found /\ ret.val = ret.raw
            [] ret.raw.t = "float" ->
                 /\ ret.found /\ ret.val.t = "int"
                 /\ ret.raw.cls = "fin" => IsTruncOf(ret.val.v, ret.raw.v)
            [] OTHER -> ~ret.found /\ ret.val = IntV(0)
    /\ ret.op = "GetFloat" =>
          CASE ret.raw.t = "float" -> ret.found /\ ret.val = ret.raw
            [] ret.raw.t = "int" ->
                 /\ ret.found /\ ret.val.t = "float" /\ ret.val.cls = "fin"
                 /\ ret.val.v = 10 * ret.raw.v
            [] OTHER -> ~ret.found /\ ret.val = FloatV(0)
\* GetInt of a stored -42.7 has returned (-42, true)
C9_Witness ==
    ret.op = "GetInt" /\ ret.raw = FloatV(-427) /\ ret.found /\ ret.val = IntV(-42)

\* C10: GetStringSlice returns a stored []string as it is, a stored []any of
\* strings as the []string of the same elements in the same order, and
\* (nil, false) for a []any with an element that is not a string, for any
\* other type and for an absent key.
C10_StringSliceAllOrNothing ==
    ret.op = "GetStringSlice" =>
        CASE ret.raw.t = "[]string" -> ret.found /\ ret.val = ret.raw
          [] ret.raw.t = "[]any" ->
               IF \A i \in 1..Len(ret.raw.v) : ret.raw.v[i].t = "string"
                  THEN /\ ret.found /\ ret.val.t = "[]string"
                       /\ Len(ret.val.v) = Len(ret.raw.v)
                       /\ \A i \in 1..Len(ret.raw.v) : ret.val.v[i] = ret.raw.v[i].v
                  ELSE ~ret.found /\ ret.val = NilSlice
          [] OTHER -> ~ret.found /\ ret.val = NilSlice
\* GetStringSlice of the stored []any{"a", 1, "c"} has returned (nil, false)
C10_Witness ==
    /\ ret.op = "GetStringSlice"
    /\ ret.raw = AnysV(<<StrV("a"), IntV(1), StrV("c")>>)
    /\ ~ret.found /\ ret.val = NilSlice

\* the zero value of the type accessor op returns
ZeroOf(op) ==
    CASE op = "GetString" -> StrV("")
      [] op = "GetInt" -> IntV(0)
      [] op = "GetBool" -> BoolV(FALSE)
      [] op = "GetFloat" -> FloatV(0)
      [] op = "GetStringSlice" -> NilSlice
\* accessor op accepts the stored value raw (NilAny: the key is absent)
Accepted(op, raw) ==
    CASE op = "GetString" -> raw.t = "string"
      [] op = "GetInt" -> raw.t \in {"int", "float"}
      [] op = "GetBool" -> raw.t = "bool"
      [] op = "GetFloat" -> raw.t \in {"int", "float"}
      [] op = "GetStringSlice" ->
           \/ raw.t = "[]string"
           \/ raw.t = "[]any" /\ \A i \in 1..Len(raw.v) : raw.v[i].t = "string"
\* C11: a typed accessor returns no error; for an absent key and for a value
\* of a type it does not accept alike it returns found = false with the zero
\* value of its type; GetString returns found = true exactly for a stored
\* string and GetBool exactly for a stored bool, each returning the value itself.
C11_AbsentAndWrongTypeAlike ==
    ret.op \in TypedAccessors =>
        /\ ret.err = Nil
        /\ ret.found <=> Accepted(ret.op, ret.raw)
        /\ ~ret.found => ret.val = ZeroOf(ret.op)
        /\ ret.op \in {"GetString", "GetBool"} => (ret.found => ret.val = ret.raw)
\* GetString of a stored int has returned ("", false), as for an absent key
C11_Witness ==
    ret.op = "GetString" /\ ret.raw = IntV(42) /\ ~ret.found /\ ret.val = StrV("")

\* the one validator registered, when it is of the kind
Only(kind) == Len(validators) = 1 /\ validators[1].kind = kind
\* x <= y on the numbers a float64 holds (NaN is not one)
Leq(x, y) ==
    /\ x.cls # "nan" /\ y.cls # "nan"
    /\ \/ FRank(x) < FRank(y)
       \/ FRank(x) = FRank(y) /\ (x.cls = "fin" => x.v <= y.v)
\* the number x is whole: a finite float64 beyond the range of int always is
ZeroFraction(x) ==
    CASE x.t = "int" -> TRUE
      [] x.cls = "fin" -> x.v % 10 = 0
      [] x.cls \in {"+big", "-big"} -> TRUE
      [] OTHER -> FALSE
\* the number x as a float64
Widened(x) == IF x.t = "int" THEN FloatV(10 * x.v) ELSE x
\* C12 as stated: RangeValidator passes exactly when the key is absent, or the
\* value is a number within [min, max], both bounds included, that is whole
\* when isInt is set.
RangeAccepts(v, m) ==
    \/ ~Has(m, v.key)
    \/ /\ m[v.key].t \in {"int", "float"}
       /\ Leq(v.min, Widened(m[v.key])) /\ Leq(Widened(m[v.key]), v.max)
       /\ v.isInt => ZeroFraction(m[v.key])
C12_AsStated ==
    (ret.op = "Validate" /\ Only("range")) =>
        (ret.err = Nil <=> RangeAccepts(validators[1], values))
\* RangeValidator{a, 1024, 65535, isInt false} has passed a stored NaN
C12_Witness ==
    /\ ret.op = "Validate" /\ ret.err = Nil
    /\ validators = <<RangeV("a", PortMin, PortMax, FALSE)>>
    /\ Has(values, "a") /\ values["a"] = FloatS("nan")

\* C13: RequiredValidator passes exactly when every key of its list is
\* present, whatever the value; otherwise it fails with the missing-key error
\* naming the first key of the list that is absent.
C13_RequiredFirstMissing ==
    (ret.op = "Validate" /\ Only("required")) =>
        LET keys == validators[1].keys
            M == {i \in 1..Len(keys) : ~Has(values, keys[i])} IN
        IF M = {} THEN ret.err = Nil
        ELSE ret.err = Err("required configuration key missing",
                           keys[CHOOSE i \in M : \A j \in M : i <= j], "")
\* keys b, a, both absent: the error names b, the first of the list
C13_Witness ==
    /\ ret.op = "Validate" /\ validators = <<ReqV(<<"b", "a">>)>>
    /\ values = EmptyMap
    /\ ret.err = Err("required configuration key missing", "b", "")

\* the accessor that returns values of type t
AccessorFor(t) ==
    CASE t = "int" -> "GetInt"
      [] t = "float" -> "GetFloat"
      [] t = "string" -> "GetString"
      [] t = "bool" -> "GetBool"
      [] t = "[]string" -> "GetStringSlice"
      [] OTHER -> "none"
\* C14: TypeValidator passes exactly when the key is absent or the stored
\* value's dynamic type is the expected one; where it passes on a present key
\* the accessor for the type returns found = true; GetFloat succeeds on a
\* stored int that TypeValidator(float) rejects, and GetInt on a stored float
\* that TypeValidator(int) rejects.
C14_TypeValidatorStricter ==
    /\ (ret.op = "Validate" /\ Only("type")) =>
          (ret.err = Nil <=>
             (~Has(values, validators[1].key)
              \/ values[validators[1].key].t = validators[1].type))
    /\ (ret.op \in TypedAccessors /\ Has(values, ret.key)) =>
          \A t \in Types :
             (AccessorFor(t) = ret.op /\ TypeValidate(TypeV(ret.key, t), values) = Nil)
                => ret.found
    /\ (ret.op = "GetFloat" /\ ret.raw.t = "int") =>
          ret.found /\ TypeValidate(TypeV(ret.key, "float"), values) # Nil
    /\ (ret.op = "GetInt" /\ ret.raw.t = "float") =>
          ret.found /\ TypeValidate(TypeV(ret.key, "int"), values) # Nil
\* TypeValidator{a, float} has failed on the stored int 8080
C14_Witness ==
    /\ ret.op = "Validate" /\ validators = <<TypeV("a", "float")>>
    /\ Has(values, "a") /\ values["a"] = Port
    /\ ret.err = Err("invalid type", "a", "")

\* the README's three loads have returned: chain.before is what the file
\* defined, chain.A what the environment defined, chain.B the defaults
ReadmeDone == nops = 3 /\ Loaded /\ chain.n = 2
\* C15 as stated: after the README's three loads a key the environment
\* defines holds the environment's value, a key only the file defines holds
\* the file's, and only a key neither defines holds its default.
C15_AsStated ==
    ReadmeDone =>
        \A k \in Keys :
            IF Has(chain.A, k) THEN Has(values, k) /\ values[k] = chain.A[k]
            ELSE IF Has(chain.before, k) THEN Has(values, k) /\ values[k] = chain.before[k]
            ELSE At(values, k) = At(chain.B, k)
\* the file defines a as 1, the defaults define a as 2: a holds 2
C15_Witness ==
    /\ ReadmeDone
    /\ chain.before = Put(EmptyMap, "a", IntV(1)) /\ chain.A = EmptyMap
    /\ chain.B = MapA
    /\ values["a"] = IntV(2)

Validating(p) == pc[p] = "cs" /\ cur[p].op = "Validate"
\* C16 as stated: while a Validate is in its critical section no other
\* operation, reader or writer, is in one.
C16_AsStated ==
    \A p, q \in Procs : (p # q /\ Validating(p)) => pc[q] # "cs"
\* C16, amended: Validate holds the lock shared: while a Validate is in its
\* critical section no Set, Load or AddValidator is in one (a Get, a typed
\* accessor or another Validate can be: the witness).
C16_ValidateExcludesWriters ==
    \A p, q \in Procs : (p # q /\ Validating(p)) => ~WriterIn(q)
\* two Validates and a Get are in their critical sections at once
C16_Witness ==
    \E p, q, r \in Procs :
        /\ p # q /\ Validating(p) /\ Validating(q)
        /\ pc[r] = "cs" /\ cur[r].op = "Get"

\* C17 as stated: the store cannot deadlock, also when validators call back
\* into it: while a call is in progress, some goroutine in a call can take
\* its next step.
C17_AsStated ==
    (\E p \in Procs : ~Idle(p)) => ENABLED (\E p \in Procs : StepsCb(p))
\* Validate runs a validator that calls Set: the goroutine holds the
\* writers' mutex and waits for the readers to leave, holding the read lock
\* itself; no other goroutine is in a call
C17_Witness ==
    \E p \in Procs :
        /\ idx[p] > 0 /\ cur[p].op = "Set" /\ pc[p] = "drain"
        /\ wmutex = p /\ readers = 1
        /\ \A q \in Procs : q # p => Idle(q)

\* p holds or is taking the write lock: it has the writers' mutex
HoldsW(p) == wmutex = p /\ pc[p] \in {"drain", "cs"}
\* the read lock is held by the readers in their critical sections alone; a
\* Load whose source is producing holds no lock, a Load merges only with the
\* write lock, and a goroutine that waits waits for a lock holder
SourceOutsideLock ==
    /\ readers = Cardinality({q \in Procs : ReaderIn(q)})
    /\ \A p \in Procs :
          /\ pc[p] = "src" => wmutex # p
          /\ Loading(p) => wmutex = p /\ readers = 0
          /\ pc[p] = "rwait" => \E q \in Procs : q # p /\ HoldsW(q)
          /\ pc[p] = "wlock" => wmutex = None \/ \E q \in Procs : q # p /\ HoldsW(q)
          /\ pc[p] = "drain" => wmutex = p
\* C18: Load runs its source without the lock and holds the write lock only
\* for the merge: no goroutine waits for a Load whose source is producing,
\* and no step of a Load before its merge changes the store.
C18_SourceOutsideLock ==
    /\ []SourceOutsideLock
    /\ [][\A p \in Procs :
             (cur'[p].op = "Load" /\ pc[p] # "cs" /\ pc'[p] # pc[p])
                => (values' = values /\ validators' = validators)]_vars
\* while the source of a Load is producing, a Set that started after it has
\* returned
C18_Witness ==
    \E p \in Procs :
        /\ pc[p] = "src" /\ nops = 2
        /\ ret.op = "Set" /\ ret.by > p /\ Has(values, ret.key)

\* C19: the validator list changes only when an AddValidator returns, which
\* appends its argument at the end, also when the list holds it already, and
\* leaves the value map alone; every step of every other operation leaves
\* the list as it is, and a Validate that returns nil has run every entry of
\* the list, duplicates included.
C19_ValidatorsAppendOnly ==
    /\ []((ret.op = "Validate" /\ ret.err = Nil)
            => ret.ran = [i \in 1..Len(validators) |-> i])
    /\ [][\/ validators' = validators
          \/ \E p \in Procs :
                /\ pc[p] = "cs" /\ cur[p].op = "AddValidator" /\ pc'[p] = "idle"
                /\ validators' = Append(validators, cur[p].vld)
                /\ values' = values]_vars
    /\ [][\A p \in Procs :
             (pc[p] = "cs" /\ cur[p].op = "AddValidator" /\ pc'[p] = "idle")
                => validators' = Append(validators, cur[p].vld)]_vars
\* the same validator was added twice, and a Validate has run it twice
C19_Witness ==
    /\ Len(validators) = 2 /\ validators[1] = validators[2]
    /\ ret.op = "Validate" /\ ret.err = Nil /\ ret.ran = <<1, 2>>

\* goroutine p takes a step of a call of one of the operations ops (a
\* reader blocked in RLock takes none: the writer's Unlock admits it)
StepOf(p, ops) ==
    /\ pc[p] # "rwait"
    /\ cur'[p] # cur[p] \/ pc'[p] # pc[p]
    /\ cur[p].op \in ops \/ cur'[p].op \in ops
\* C20: a new store holds no key; no step removes a key; a Get returns
\* found = true exactly when the store holds the key (so once it has, every
\* later Get of the key does); and no step of Get, Validate or AddValidator
\* changes the mapping.
C20_KeysOnlyGrow ==
    /\ values = EmptyMap
    /\ [](ret.op = "Get" => (ret.found <=> Has(values, ret.key)))
    /\ [][\A k \in Keys : Has(values, k) => Has(values', k)]_vars
    /\ [][\A p \in Procs :
             StepOf(p, ReaderOps \cup {"AddValidator"}) => values' = values]_vars
\* after a Set and then a Load of an empty mapping, a Get returns found = true
C20_Witness ==
    /\ chain.n = 1 /\ chain.A = EmptyMap /\ chain.before # EmptyMap
    /\ ret.op = "Get" /\ ret.found

====
